---- MODULE Spec2Model ----
(***************************************************************************)
(* Model of the multi-model question solver (server.js and the client's    *)
(* App.js).                                                                *)
(*                                                                         *)
(* A text is a sequence of one-character strings.  An answer is a record   *)
(* with the fields the JavaScript object has: a field the object lacks is  *)
(* not in the record's DOMAIN, and the object spread {...r, k: v} is       *)
(* [k |-> v] @@ r.                                                         *)
(*                                                                         *)
(* SpecAnalyze applies analyzeResponses to bounded inputs.                 *)
(* SpecServer is the POST /api/analyze handler (individual mode).          *)
(* SpecParse applies parseBatchResponse to bounded batch answers.          *)
(* SpecBatch is the POST /api/analyze-batch handler (batch mode).          *)
(* SpecRequests is a request to either handler.                            *)
(* SpecStrong is the POST /api/evaluate-strongly handler.                  *)
(* SpecEndpoints is a request to any of the three handlers.                *)
(* SpecClient is the client's analysis and strong-evaluation state.        *)
(***************************************************************************)
EXTENDS Integers, Sequences, FiniteSets, TLC

VARIABLES
    responses,      \* analyzeResponses: the argument of the call
    analyzed,       \* analyzeResponses: the value the call returned
    control,        \* the value returned for the successful answers alone
    pc,             \* position of the analyzeResponses harness
    files,          \* req.files: the uploaded images, in upload order
    disk,           \* the temporary files of the request still on disk
    cursor,         \* index in req.files of the image the for-loop is at
    openaiResult,   \* callOpenAI promise of the current image
    claudeResult,   \* callClaude promise of the current image
    results,        \* the handler's results array
    reply,          \* what the handler sent with res.json / res.status
    calls,          \* the model calls issued so far, each with its outcome
    spc,            \* position of the /api/analyze handler
    batchResponse,  \* parseBatchResponse: the answer of one batch call
    filenames,      \* parseBatchResponse: the names of the images, in order
    parsed,         \* parseBatchResponse: the value the call returned
    ppc,            \* position of the parseBatchResponse harness
    run,            \* client: number of analyses started so far
    loading,        \* client: the loading state of the analysis
    shown,          \* client: the results state
    originalFiles,  \* client: the names in the originalFiles mapping
    strongEvaluations,        \* client: filename -> stored evaluation
    strongEvaluationLoading,  \* client: the filenames whose flag is true
    inflight        \* client: the requests awaiting their response

avars == <<responses, analyzed, control, pc>>
svars == <<files, disk, cursor, openaiResult, claudeResult, results, reply,
           calls, spc>>
pvars == <<batchResponse, filenames, parsed, ppc>>
cvars == <<run, loading, shown, originalFiles, strongEvaluations,
           strongEvaluationLoading, inflight>>
vars == <<responses, analyzed, control, pc,
          files, disk, cursor, openaiResult, claudeResult, results, reply,
          calls, spc, batchResponse, filenames, parsed, ppc,
          run, loading, shown, originalFiles, strongEvaluations,
          strongEvaluationLoading, inflight>>

(***************************************************************************)
(* Bounds of the model.                                                    *)
(***************************************************************************)
MaxAnswers == 3         \* longest argument given to analyzeResponses
MaxFiles == 2           \* most images uploaded in one modelled request
MaxRuns == 2             \* most analyses started in the client
MaxBatch == 2           \* most filenames given to parseBatchResponse

(***************************************************************************)
(* Strings.                                                                *)
(***************************************************************************)
WhiteSpace == {" ", "\n"}

UpperCase ==
    <<"A", "B", "C", "D", "E", "F", "G", "H", "I", "J", "K", "L", "M", "N",
    "O", "P", "Q", "R", "S", "T", "U", "V", "W", "X", "Y", "Z">>
LowerCase ==
    <<"a", "b", "c", "d", "e", "f", "g", "h", "i", "j", "k", "l", "m", "n",
    "o", "p", "q", "r", "s", "t", "u", "v", "w", "x", "y", "z">>

\* String.prototype.toLowerCase, one character
lowerChar(c) ==
    IF \E i \in 1..Len(UpperCase) : UpperCase[i] = c
    THEN LowerCase[CHOOSE i \in 1..Len(UpperCase) : UpperCase[i] = c]
    ELSE c

\* String.prototype.toLowerCase
toLowerCase(s) == [i \in 1..Len(s) |-> lowerChar(s[i])]

\* String.prototype.trim: drops the white space at both ends
trim(s) ==
    LET keep == {i \in 1..Len(s) : s[i] \notin WhiteSpace}
    IN  IF keep = {} THEN <<>>
        ELSE LET first == CHOOSE i \in keep : \A j \in keep : i <= j
                 last == CHOOSE i \in keep : \A j \in keep : j <= i
             IN  SubSeq(s, first, last)

\* String.prototype.split(/\s+/): the pieces between maximal runs of white
\* space, the empty pieces at both ends included ("" splits into [""]).
RECURSIVE splitFrom(_, _, _, _)
splitFrom(s, i, word, inRun) ==
    IF i > Len(s) THEN <<word>>
    ELSE IF s[i] \in WhiteSpace
         THEN IF inRun THEN splitFrom(s, i + 1, word, TRUE)
              ELSE <<word>> \o splitFrom(s, i + 1, <<>>, TRUE)
         ELSE splitFrom(s, i + 1, Append(word, s[i]), FALSE)

splitWords(s) == splitFrom(s, 1, <<>>, FALSE)

\* Array.prototype.includes
includes(arr, x) == \E i \in 1..Len(arr) : arr[i] = x

Max(a, b) == IF a >= b THEN a ELSE b

(***************************************************************************)
(* analyzeResponses (server.js 590-654).                                   *)
(***************************************************************************)
ShortAnswerLen == 5

\* r.response of a successful answer whose content is null: calling
\* toLowerCase on it raises a TypeError.
Null == <<"null">>

\* {...r, k: v, ...}
spread(r, over) == over @@ r

successfulResponses(rs) == SelectSeq(rs, LAMBDA r : r.success)

\* variant: the failed answers are classified like the others
failedResponsesCompared(rs) ==
    LET failed == SelectSeq(rs, LAMBDA r : ~r.success)
    IN  [i \in 1..Len(failed) |-> spread(failed[i], [status |-> "different"])]

\* responses.filter(r => !r.success).map(r => ({ ...r, status: 'error' }))
failedResponses(rs) ==
    LET failed == SelectSeq(rs, LAMBDA r : ~r.success)
    IN  [i \in 1..Len(failed) |-> spread(failed[i], [status |-> "error"])]

\* successfulResponses.map(r => r.response.toLowerCase().trim())
normalize(text) == trim(toLowerCase(text))

\* variant: the texts are lower-cased but not trimmed
responseTextsUntrimmed(rs) ==
    LET ok == successfulResponses(rs)
    IN  [i \in 1..Len(ok) |-> toLowerCase(ok[i].response)]

responseTexts(rs) ==
    LET ok == successfulResponses(rs)
    IN  [i \in 1..Len(ok) |-> normalize(ok[i].response)]

\* variant: each shared word is kept once
RECURSIVE distinctFrom(_, _)
distinctFrom(ws, seen) ==
    IF ws = <<>> THEN <<>>
    ELSE IF Head(ws) \in seen THEN distinctFrom(Tail(ws), seen)
         ELSE <<Head(ws)>> \o distinctFrom(Tail(ws), seen \cup {Head(ws)})

commonWordsDistinct(words1, words2) ==
    distinctFrom(SelectSeq(words1, LAMBDA word : includes(words2, word)), {})

\* words1.filter(word => words2.includes(word))
commonWords(words1, words2) ==
    SelectSeq(words1, LAMBDA word : includes(words2, word))

\* similarity > 0.8, with similarity = commonWords.length / Math.max(...)
similar(currentText, text) ==
    LET words1 == splitWords(currentText)
        words2 == splitWords(text)
    IN  10 * Len(commonWords(words1, words2))
            > 8 * Max(Len(words1), Len(words2))

\* the callback of responseTexts.filter: is text a match of currentText
isMatch(currentText, text) ==
    IF Len(currentText) = 1 /\ Len(text) = 1 THEN currentText = text
    ELSE IF Len(currentText) <= ShortAnswerLen /\ Len(text) <= ShortAnswerLen
         THEN currentText = text
         ELSE similar(currentText, text)

\* matches = responseTexts.filter(...), for the text at index
matches(texts, index) ==
    SelectSeq(texts, LAMBDA text : isMatch(texts[index], text))

\* variant: an answer that matches only itself is never a consensus
statusOfStrict(matchCount, total) ==
    IF matchCount = total /\ total > 1 THEN "consensus"
    ELSE IF matchCount > 1 THEN "partial"
    ELSE "different"

statusOf(matchCount, total) ==
    IF matchCount = total THEN "consensus"
    ELSE IF matchCount > 1 THEN "partial"
    ELSE "different"

\* variant: the count is added to the one the answer already carries
taggedAccumulating(response, matchCount, total) ==
    LET sum == IF "matchCount" \in DOMAIN response
               THEN response.matchCount + matchCount ELSE matchCount
    IN  spread(response, [matchCount |-> sum,
                          status |-> statusOf(matchCount, total)])

\* { ...response, matchCount: matches.length, status: status }
tagged(response, matchCount, total) ==
    spread(response, [matchCount |-> matchCount,
                      status |-> statusOf(matchCount, total)])

\* the call raises: a successful answer has no text to lower-case
analyzeThrows(rs) ==
    \E i \in 1..Len(rs) : rs[i].success /\ rs[i].response = Null

\* variant: the answers keep their input order
analyzeResponsesInPlace(rs) ==
    LET texts == responseTexts(rs)
        rank(i) == Len(successfulResponses(SubSeq(rs, 1, i)))
    IN  [i \in 1..Len(rs) |->
            IF rs[i].success
            THEN tagged(rs[i], Len(matches(texts, rank(i))), Len(texts))
            ELSE spread(rs[i], [status |-> "error"])]

\* variant: the matches are weighed against all answers, failed included
analyzeResponsesCountAll(rs) ==
    LET ok == successfulResponses(rs)
        texts == responseTexts(rs)
    IN  IF Len(ok) < 1
        THEN [i \in 1..Len(rs) |-> spread(rs[i], [status |-> "error"])]
        ELSE [i \in 1..Len(ok) |->
                 tagged(ok[i], Len(matches(texts, i)), Len(rs))]
             \o failedResponses(rs)

\* the value analyzeResponses returns when it does not raise
analyzeResponses(rs) ==
    LET ok == successfulResponses(rs)
        texts == responseTexts(rs)
    IN  IF Len(ok) < 1
        THEN [i \in 1..Len(rs) |-> spread(rs[i], [status |-> "error"])]
        ELSE [i \in 1..Len(ok) |->
                 tagged(ok[i], Len(matches(texts, i)), Len(texts))]
             \o failedResponses(rs)

(***************************************************************************)
(* Inputs of analyzeResponses.                                             *)
(***************************************************************************)
\* a b c d e, and variations of it
Letters5 == <<"a", " ", "b", " ", "c", " ", "d", " ", "e">>

Texts ==
    { <<"A">>,                          \* a single letter
      <<"a", " ">>,                     \* the same letter after normalizing
      <<"B">>,
      <<>>,                             \* the empty answer
      <<"a", " ", "b">>,                \* short, two words
      <<"b", " ", "a">>,                \* the same words in another order
      <<"a", "b", "c", "d", "e">>,      \* five characters: still short
      <<"a", "b", "c", "d", "e", "f">>, \* six characters, one word
      Letters5,                         \* five words
      <<"A", " ", "B", " ", "C", " ", "D", " ", "E", "\n">>,
      <<"a", " ", " ", "b", " ", "c", " ", "d", " ", "e">>,
      <<"a", " ", "b", " ", "c", " ", "d", " ", "f">>,   \* 4 of 5 shared
      Letters5 \o <<" ", "f">>,         \* 5 of 6 shared
      <<"a", " ", "a", " ", "a", " ", "a", " ", "a">> }  \* a repeated word

Errors == {"timeout", "401 Unauthorized"}

\* an answer before it is given a model: a successful one carries its
\* text, a failed one the message of its error
Payloads ==
    {[success |-> TRUE, response |-> t] : t \in Texts}
        \cup {[success |-> FALSE, error |-> e] : e \in Errors}

\* the answers of n models; the model of an answer is its position
answersOf(payloads) ==
    [i \in 1..Len(payloads) |-> spread(payloads[i], [model |-> i])]

(***************************************************************************)
(* Applying analyzeResponses: to an input, to its own output, and to the   *)
(* successful answers of the input alone.                                  *)
(***************************************************************************)
ServerIdle ==
    /\ files = <<>>
    /\ disk = {}
    /\ cursor = 0
    /\ openaiResult = [state |-> "none"]
    /\ claudeResult = [state |-> "none"]
    /\ results = <<>>
    /\ reply = [sent |-> FALSE]
    /\ calls = <<>>
    /\ spc = "idle"

AnalyzerIdle ==
    /\ responses = <<>>
    /\ analyzed = <<>>
    /\ control = <<>>
    /\ pc = "off"

ParserIdle ==
    /\ batchResponse = [success |-> FALSE]
    /\ filenames = <<>>
    /\ parsed = <<>>
    /\ ppc = "off"

ClientIdle ==
    /\ run = 0
    /\ loading = FALSE
    /\ shown = <<>>
    /\ originalFiles = {}
    /\ strongEvaluations = [f \in {} |-> 0]
    /\ strongEvaluationLoading = {}
    /\ inflight = {}

InitAnalyze ==
    /\ \E n \in 0..MaxAnswers :
          \E payloads \in [1..n -> Payloads] :
              responses = answersOf(payloads)
    /\ analyzed = <<>>
    /\ control = <<>>
    /\ pc = "start"
    /\ ServerIdle
    /\ ParserIdle
    /\ ClientIdle

Analyze ==
    /\ pc = "start"
    /\ analyzed' = analyzeResponses(responses)
    /\ pc' = "analyzed"
    /\ UNCHANGED <<responses, control>>
    /\ UNCHANGED svars
    /\ UNCHANGED pvars
    /\ UNCHANGED cvars

AnalyzeSuccessful ==
    /\ pc = "analyzed"
    /\ control' = analyzeResponses(successfulResponses(responses))
    /\ pc' = "compared"
    /\ UNCHANGED <<responses, analyzed>>
    /\ UNCHANGED svars
    /\ UNCHANGED pvars
    /\ UNCHANGED cvars

AnalyzeAgain ==
    /\ pc = "analyzed"
    /\ responses' = analyzed
    /\ analyzed' = analyzeResponses(analyzed)
    /\ pc' = "reanalyzed"
    /\ UNCHANGED control
    /\ UNCHANGED svars
    /\ UNCHANGED pvars
    /\ UNCHANGED cvars

NextAnalyze == Analyze \/ AnalyzeSuccessful \/ AnalyzeAgain

SpecAnalyze == InitAnalyze /\ [][NextAnalyze]_vars

(***************************************************************************)
(* POST /api/analyze (server.js 657-728): each image in turn is sent to    *)
(* both models at once, the two answers are analysed and the image's entry *)
(* is pushed to results.                                                   *)
(***************************************************************************)
MaxUpload == 8

OpenAIModel == "o4-mini"
ClaudeModel == "claude-sonnet-4-20250514"

Filenames == {"cat.jpg", "dog.jpg"}

\* the texts a model answers with
ServerTexts == {<<"A">>, <<"a", " ">>, <<"B">>}

ServerErrors == {"timeout"}

\* what callOpenAI resolves to: the content of the first choice, which the
\* API may leave null, or the message of the error caught
callOpenAI ==
    {[success |-> TRUE, response |-> t, model |-> OpenAIModel] :
         t \in ServerTexts \cup {Null}}
    \cup {[success |-> FALSE, error |-> e, model |-> OpenAIModel] :
              e \in ServerErrors}

\* what callClaude resolves to: the text of the last text block ('' when
\* there is none) with the thinking summary, or the message of the error
callClaude ==
    {[success |-> TRUE, response |-> t, thinking |-> "summary",
      model |-> ClaudeModel] : t \in ServerTexts \cup {<<>>}}
    \cup {[success |-> FALSE, error |-> e, model |-> ClaudeModel] :
              e \in ServerErrors}

Pending == [state |-> "pending"]
Fulfilled(v) == [state |-> "fulfilled", value |-> v]

outcomeOf(v) == IF v.success THEN "ok" ELSE "failed"

\* the call of the model for the image at the cursor is settled in the log
settle(log, file, model, v) ==
    [i \in 1..Len(log) |->
        IF log[i].file = file /\ log[i].model = model
               /\ log[i].outcome = "pending"
        THEN [log[i] EXCEPT !.outcome = outcomeOf(v)]
        ELSE log[i]]

\* results.push({ filename, error: 'Failed to process image' })
imageError(file) ==
    [filename |-> file.originalname, error |-> "Failed to process image"]

\* variant: an image none of whose calls succeeded is reported as failed
imageResultOrError(file, allResponses) ==
    IF Len(successfulResponses(allResponses)) < 1
    THEN imageError(file)
    ELSE [filename |-> file.originalname,
          responses |-> analyzeResponses(allResponses)]

\* variant: an image one of whose calls failed is reported as failed
imageResultAllOrNothing(file, allResponses) ==
    IF Len(successfulResponses(allResponses)) < Len(allResponses)
    THEN imageError(file)
    ELSE [filename |-> file.originalname,
          responses |-> analyzeResponses(allResponses)]

\* variant: the entry of a processed image carries an error field as well
imageResultWithError(file, allResponses) ==
    [filename |-> file.originalname,
     responses |-> analyzeResponses(allResponses),
     error |-> "none"]

\* results.push({ filename, responses: analyzedResponses })
imageResult(file, allResponses) ==
    [filename |-> file.originalname,
     responses |-> analyzeResponses(allResponses)]

InitServer ==
    /\ \E n \in 0..MaxFiles :
         \E names \in [1..n -> Filenames] :
            /\ files = [i \in 1..n |-> [originalname |-> names[i], path |-> i]]
            /\ disk = 1..n
    /\ cursor = 0
    /\ openaiResult = [state |-> "none"]
    /\ claudeResult = [state |-> "none"]
    /\ results = <<>>
    /\ reply = [sent |-> FALSE]
    /\ calls = <<>>
    /\ spc = "received"
    /\ AnalyzerIdle
    /\ ParserIdle
    /\ ClientIdle

\* the checks on req.files (664-672), then the loop is entered
Validate ==
    /\ spc = "received"
    /\ IF Len(files) = 0
       THEN /\ reply' = [status |-> 400, error |-> "No images uploaded"]
            /\ spc' = "sent"
            /\ UNCHANGED cursor
       ELSE IF Len(files) > MaxUpload
       THEN /\ reply' = [status |-> 400,
                         error |-> "Maximum 8 images allowed per request"]
            /\ spc' = "sent"
            /\ UNCHANGED cursor
       ELSE /\ cursor' = 1
            /\ spc' = "loop"
            /\ UNCHANGED reply
    /\ UNCHANGED <<files, disk, openaiResult, claudeResult, results, calls>>
    /\ UNCHANGED avars
    /\ UNCHANGED pvars
    /\ UNCHANGED cvars

\* the two calls of Promise.all for the image at rank i
callsFor(i) ==
    <<[file |-> i, model |-> OpenAIModel, outcome |-> "pending"],
      [file |-> i, model |-> ClaudeModel, outcome |-> "pending"]>>

RECURSIVE callsFrom(_, _)
callsFrom(i, n) == IF i > n THEN <<>> ELSE callsFor(i) \o callsFrom(i + 1, n)

\* variant: the calls of all remaining images are started at once
StartCallsAll ==
    /\ spc = "loop"
    /\ cursor <= Len(files)
    /\ openaiResult' = Pending
    /\ claudeResult' = Pending
    /\ calls' = calls \o callsFrom(cursor, Len(files))
    /\ spc' = "awaiting"
    /\ UNCHANGED <<files, disk, cursor, results, reply>>
    /\ UNCHANGED avars
    /\ UNCHANGED pvars
    /\ UNCHANGED cvars

\* variant: the OpenAI call of the image is issued a second time
StartCallsTwice ==
    /\ spc = "loop"
    /\ cursor <= Len(files)
    /\ openaiResult' = Pending
    /\ claudeResult' = Pending
    /\ calls' = calls \o
           <<[file |-> cursor, model |-> OpenAIModel, outcome |-> "pending"],
             [file |-> cursor, model |-> ClaudeModel, outcome |-> "pending"],
             [file |-> cursor, model |-> OpenAIModel, outcome |-> "pending"]>>
    /\ spc' = "awaiting"
    /\ UNCHANGED <<files, disk, cursor, results, reply>>
    /\ UNCHANGED avars
    /\ UNCHANGED pvars
    /\ UNCHANGED cvars

\* Promise.all([callOpenAI(...), callClaude(...)]) for the image at the
\* cursor (687-690)
StartCalls ==
    /\ spc = "loop"
    /\ cursor <= Len(files)
    /\ openaiResult' = Pending
    /\ claudeResult' = Pending
    /\ calls' = calls \o
           <<[file |-> cursor, model |-> OpenAIModel, outcome |-> "pending"],
             [file |-> cursor, model |-> ClaudeModel, outcome |-> "pending"]>>
    /\ spc' = "awaiting"
    /\ UNCHANGED <<files, disk, cursor, results, reply>>
    /\ UNCHANGED avars
    /\ UNCHANGED pvars
    /\ UNCHANGED cvars

OpenAISettles ==
    /\ spc = "awaiting"
    /\ openaiResult = Pending
    /\ \E v \in callOpenAI :
          /\ openaiResult' = Fulfilled(v)
          /\ calls' = settle(calls, cursor, OpenAIModel, v)
    /\ UNCHANGED <<files, disk, cursor, claudeResult, results, reply, spc>>
    /\ UNCHANGED avars
    /\ UNCHANGED pvars
    /\ UNCHANGED cvars

ClaudeSettles ==
    /\ spc = "awaiting"
    /\ claudeResult = Pending
    /\ \E v \in callClaude :
          /\ claudeResult' = Fulfilled(v)
          /\ calls' = settle(calls, cursor, ClaudeModel, v)
    /\ UNCHANGED <<files, disk, cursor, openaiResult, results, reply, spc>>
    /\ UNCHANGED avars
    /\ UNCHANGED pvars
    /\ UNCHANGED cvars

\* variant: the image is processed as soon as the OpenAI call has settled,
\* with the answers at hand
ProcessImageEager ==
    /\ spc = "awaiting"
    /\ openaiResult.state = "fulfilled"
    /\ LET file == files[cursor]
           allResponses ==
               IF claudeResult.state = "fulfilled"
               THEN <<openaiResult.value, claudeResult.value>>
               ELSE <<openaiResult.value>>
       IN  IF analyzeThrows(allResponses)
           THEN results' = Append(results, imageError(file))
           ELSE results' = Append(results, imageResult(file, allResponses))
    /\ disk' = disk \ {files[cursor].path}
    /\ openaiResult' = [state |-> "none"]
    /\ claudeResult' = [state |-> "none"]
    /\ cursor' = cursor + 1
    /\ spc' = "loop"
    /\ UNCHANGED <<files, reply, calls>>
    /\ UNCHANGED avars
    /\ UNCHANGED pvars
    /\ UNCHANGED cvars

\* variant: what is thrown while an image is processed is not caught in
\* the loop and ends the request
ProcessImageAborting ==
    /\ spc = "awaiting"
    /\ openaiResult.state = "fulfilled"
    /\ claudeResult.state = "fulfilled"
    /\ LET file == files[cursor]
           allResponses == <<openaiResult.value, claudeResult.value>>
       IN  IF analyzeThrows(allResponses)
           THEN /\ reply' = [status |-> 500, error |-> "Internal server error"]
                /\ spc' = "sent"
                /\ UNCHANGED <<results, disk, cursor>>
           ELSE /\ results' = Append(results, imageResult(file, allResponses))
                /\ disk' = disk \ {file.path}
                /\ cursor' = cursor + 1
                /\ spc' = "loop"
                /\ UNCHANGED reply
    /\ openaiResult' = [state |-> "none"]
    /\ claudeResult' = [state |-> "none"]
    /\ UNCHANGED <<files, calls>>
    /\ UNCHANGED avars
    /\ UNCHANGED pvars
    /\ UNCHANGED cvars

\* the await resumes with both answers: they are analysed, the entry of
\* the image is pushed and its file removed (696-705); whatever is thrown
\* on the way is caught and pushes an error entry (707-718)
ProcessImage ==
    /\ spc = "awaiting"
    /\ openaiResult.state = "fulfilled"
    /\ claudeResult.state = "fulfilled"
    /\ LET file == files[cursor]
           allResponses == <<openaiResult.value, claudeResult.value>>
       IN  IF analyzeThrows(allResponses)
           THEN /\ results' = Append(results, imageError(file))
                /\ disk' = disk \ {file.path}
           ELSE IF file.path \in disk
           THEN /\ results' = Append(results, imageResult(file, allResponses))
                /\ disk' = disk \ {file.path}
           ELSE /\ results' = Append(Append(results,
                                  imageResult(file, allResponses)),
                                  imageError(file))
                /\ UNCHANGED disk
    /\ openaiResult' = [state |-> "none"]
    /\ claudeResult' = [state |-> "none"]
    /\ cursor' = cursor + 1
    /\ spc' = "loop"
    /\ UNCHANGED <<files, reply, calls>>
    /\ UNCHANGED avars
    /\ UNCHANGED pvars
    /\ UNCHANGED cvars

\* res.json({ results }) (723)
Respond ==
    /\ spc = "loop"
    /\ cursor > Len(files)
    /\ reply' = [status |-> 200, results |-> results]
    /\ spc' = "sent"
    /\ UNCHANGED <<files, disk, cursor, openaiResult, claudeResult, results,
                   calls>>
    /\ UNCHANGED avars
    /\ UNCHANGED pvars
    /\ UNCHANGED cvars

NextServer ==
    \/ Validate
    \/ StartCalls
    \/ OpenAISettles
    \/ ClaudeSettles
    \/ ProcessImage
    \/ Respond

SpecServer == InitServer /\ [][NextServer]_vars

(***************************************************************************)
(* Regular expressions of parseBatchResponse (server.js 529-564).  A       *)
(* position is an index in the text, Len + 1 being its end; 0 stands for   *)
(* "no match".                                                             *)
(***************************************************************************)
Letters ==
    {"a", "b", "c", "d", "e", "f", "g", "h", "i", "j", "k", "l", "m", "n",
     "o", "p", "q", "r", "s", "t", "u", "v", "w", "x", "y", "z",
     "A", "B", "C", "D", "E", "F", "G", "H", "I", "J", "K", "L", "M", "N",
     "O", "P", "Q", "R", "S", "T", "U", "V", "W", "X", "Y", "Z"}

Digits == <<"1", "2", "3", "4", "5", "6", "7", "8", "9">>

\* \w
WordChars == Letters \cup {Digits[i] : i \in 1..Len(Digits)} \cup {"0", "_"}

\* [A-D], without the i flag
ChoiceLetters == {"A", "B", "C", "D"}

\* [.)\s]
OrdinalDelims == {".", ")"} \cup WhiteSpace

ImageWord == <<"I", "m", "a", "g", "e">>

isSpace(s, p) == p >= 1 /\ p <= Len(s) /\ s[p] \in WhiteSpace
isWord(s, p) == p >= 1 /\ p <= Len(s) /\ s[p] \in WordChars

\* \s* from p: the position after the white space
RECURSIVE skipSpaces(_, _)
skipSpaces(s, p) == IF isSpace(s, p) THEN skipSpaces(s, p + 1) ELSE p

\* \w* from p
RECURSIVE skipWord(_, _)
skipWord(s, p) == IF isWord(s, p) THEN skipWord(s, p + 1) ELSE p

\* [.)\s]* from p
RECURSIVE skipDelims(_, _)
skipDelims(s, p) ==
    IF p <= Len(s) /\ s[p] \in OrdinalDelims THEN skipDelims(s, p + 1) ELSE p

\* the escaped text lit at p, under the i flag: every character of it is
\* matched literally, whatever its case
literalAt(s, p, lit) ==
    /\ p >= 1
    /\ p + Len(lit) - 1 <= Len(s)
    /\ \A k \in 1..Len(lit) : lowerChar(s[p + k - 1]) = lowerChar(lit[k])

\* <filename>\s*: at p: the position after the colon
labelEnd(s, p, name) ==
    IF literalAt(s, p, name)
    THEN LET r == skipSpaces(s, p + Len(name))
         IN  IF r <= Len(s) /\ s[r] = ":" THEN r + 1 ELSE 0
    ELSE 0

\* Image\s+<filename>\s*: at p: the position after the colon
imageLabelEnd(s, p, name) ==
    IF literalAt(s, p, ImageWord) /\ isSpace(s, p + Len(ImageWord))
    THEN labelEnd(s, skipSpaces(s, p + Len(ImageWord)), name)
    ELSE 0

\* (?=Image\s+\w) at q
imageAhead(s, q) ==
    /\ literalAt(s, q, ImageWord)
    /\ isSpace(s, q + Len(ImageWord))
    /\ isWord(s, skipSpaces(s, q + Len(ImageWord)))

\* (?=\w+\.\w+\s*:) at q
fileAhead(s, q) ==
    /\ isWord(s, q)
    /\ LET dot == skipWord(s, q)
       IN  /\ dot <= Len(s) /\ s[dot] = "."
           /\ isWord(s, dot + 1)
           /\ LET colon == skipSpaces(s, skipWord(s, dot + 1))
              IN  colon <= Len(s) /\ s[colon] = ":"

\* the leftmost place of an "Image <filename>:" label at or after p, as the
\* position after its colon
RECURSIVE firstImageLabel(_, _, _)
firstImageLabel(s, p, name) ==
    IF p > Len(s) THEN 0
    ELSE IF imageLabelEnd(s, p, name) # 0 THEN imageLabelEnd(s, p, name)
    ELSE firstImageLabel(s, p + 1, name)

\* the same for a bare "<filename>:" label
RECURSIVE firstFileLabel(_, _, _)
firstFileLabel(s, p, name) ==
    IF p > Len(s) THEN 0
    ELSE IF labelEnd(s, p, name) # 0 THEN labelEnd(s, p, name)
    ELSE firstFileLabel(s, p + 1, name)

\* ([^]*?)(?=Image\s+\w|$) from q: the end of the shortest capture
RECURSIVE untilImage(_, _)
untilImage(s, q) ==
    IF q > Len(s) \/ imageAhead(s, q) THEN q ELSE untilImage(s, q + 1)

\* ([^]*?)(?=\w+\.\w+\s*:|$) from q
RECURSIVE untilFile(_, _)
untilFile(s, q) ==
    IF q > Len(s) \/ fileAhead(s, q) THEN q ELSE untilFile(s, q + 1)

\* the result of String.prototype.match: whether the pattern matched, and
\* its first group
NoMatch == [found |-> FALSE, group |-> <<>>]
Match(group) == [found |-> TRUE, group |-> group]

\* Pattern 1: Image\s+<filename>\s*:([^]*?)(?=Image\s+\w|$), flag i
pattern1(s, name) ==
    LET from == firstImageLabel(s, 1, name)
    IN  IF from = 0 THEN NoMatch
        ELSE Match(SubSeq(s, from, untilImage(s, from) - 1))

\* Pattern 2: <filename>\s*:([^]*?)(?=\w+\.\w+\s*:|$), flag i
pattern2(s, name) ==
    LET from == firstFileLabel(s, 1, name)
    IN  IF from = 0 THEN NoMatch
        ELSE Match(SubSeq(s, from, untilFile(s, from) - 1))

\* \s*<n>[.)\s]+([A-Z])(?=\s|$) at p, flags i and m: the position of the
\* letter
ordinalAt(s, p, digit) ==
    LET at == skipSpaces(s, p)
        letter == skipDelims(s, at + 1)
    IN  IF /\ at <= Len(s) /\ s[at] = digit
           /\ letter > at + 1
           /\ letter <= Len(s) /\ s[letter] \in Letters
           /\ (letter = Len(s) \/ isSpace(s, letter + 1))
        THEN letter ELSE 0

\* (?:^|\n) at p, flag m: the start of a line, or a line feed to consume
lineAnchor(s, p) == p = 1 \/ s[p - 1] = "\n" \/ s[p] = "\n"

RECURSIVE firstOrdinal(_, _, _)
firstOrdinal(s, p, digit) ==
    IF p > Len(s) THEN 0
    ELSE IF lineAnchor(s, p) /\ ordinalAt(s, p, digit) # 0
         THEN ordinalAt(s, p, digit)
         ELSE firstOrdinal(s, p + 1, digit)

\* Pattern 3: (?:^|\n)\s*<index + 1>[.)\s]+([A-Z])(?=\s|$), flags i and m
pattern3(s, index) ==
    LET letter == firstOrdinal(s, 1, Digits[index + 1])
    IN  IF letter = 0 THEN NoMatch ELSE Match(<<s[letter]>>)

\* responseText.match(/\b[A-D]\b/g): the letters A to D standing alone
RECURSIVE letterMatchesFrom(_, _)
letterMatchesFrom(s, p) ==
    IF p > Len(s) THEN <<>>
    ELSE IF s[p] \in ChoiceLetters /\ ~isWord(s, p - 1) /\ ~isWord(s, p + 1)
         THEN <<s[p]>> \o letterMatchesFrom(s, p + 1)
         ELSE letterMatchesFrom(s, p + 1)

letterMatches(s) == letterMatchesFrom(s, 1)

\* String.prototype.split(/\n+/)
RECURSIVE splitLinesFrom(_, _, _, _)
splitLinesFrom(s, i, line, inRun) ==
    IF i > Len(s) THEN <<line>>
    ELSE IF s[i] = "\n"
         THEN IF inRun THEN splitLinesFrom(s, i + 1, line, TRUE)
              ELSE <<line>> \o splitLinesFrom(s, i + 1, <<>>, TRUE)
         ELSE splitLinesFrom(s, i + 1, Append(line, s[i]), FALSE)

\* responseText.split(/\n+/).filter(line => line.trim().length > 0)
nonBlankLines(s) ==
    SelectSeq(splitLinesFrom(s, 1, <<>>, FALSE),
              LAMBDA line : Len(trim(line)) > 0)

(***************************************************************************)
(* parseBatchResponse (server.js 510-587).                                 *)
(***************************************************************************)
LongExtraction == 10

\* the characters of a filename
charsOf(filename) ==
    IF filename = "cat.jpg" THEN <<"c", "a", "t", ".", "j", "p", "g">>
    ELSE <<"d", "o", "g", ".", "j", "p", "g">>

matched(m) == m.found /\ m.group # <<>>

\* the loop over patterns 1 to 3 (541-548): the first pattern that matches
\* with a non-empty group gives its group, trimmed
patternExtraction(s, name, index) ==
    LET first == pattern1(s, name)
        second == pattern2(s, name)
        third == pattern3(s, index)
    IN  IF matched(first) THEN trim(first.group)
        ELSE IF matched(second) THEN trim(second.group)
        ELSE IF matched(third) THEN trim(third.group)
        ELSE <<>>

\* variant: the letters are consulted only when no pattern gave a text
positionExtractionIfEmpty(s, index, extracted) ==
    IF extracted = <<>> /\ index + 1 <= Len(letterMatches(s))
    THEN <<letterMatches(s)[index + 1]>>
    ELSE extracted

\* extraction by position (551-557): when nothing was extracted, or more
\* than 10 characters, the letter at the image's rank among the letters
\* A to D standing alone in the text, if there is one
positionExtraction(s, index, extracted) ==
    IF (extracted = <<>> \/ Len(extracted) > LongExtraction)
           /\ index + 1 <= Len(letterMatches(s))
    THEN <<letterMatches(s)[index + 1]>>
    ELSE extracted

\* extraction by line (560-568): the letter of the non-blank line at the
\* image's rank, or the line trimmed
lineExtraction(s, index, extracted) ==
    IF extracted = <<>> /\ index + 1 <= Len(nonBlankLines(s))
    THEN LET line == nonBlankLines(s)[index + 1]
         IN  IF letterMatches(line) # <<>> THEN <<letterMatches(line)[1]>>
             ELSE trim(line)
    ELSE extracted

\* variant: the fallback is the response trimmed
fallbackExtractionTrimmed(s, extracted) ==
    IF extracted = <<>> THEN trim(s) ELSE extracted

\* the final fallback (571-574): the entire response
fallbackExtraction(s, extracted) == IF extracted = <<>> THEN s ELSE extracted

\* extractedResponse for the filename at index (0-based)
extractedResponse(s, name, index) ==
    fallbackExtraction(s,
        lineExtraction(s, index,
            positionExtraction(s, index,
                patternExtraction(s, name, index))))

\* the call raises: the response to search in is null
parseThrows(batch, names) ==
    batch.success /\ Len(names) > 0 /\ batch.response = Null

\* variant: the failed call is reported once, not once per filename
parseBatchResponseOnce(batch, names) ==
    IF ~batch.success
    THEN <<[filename |-> batch.model, responses |-> <<batch>>]>>
    ELSE [i \in 1..Len(names) |->
            [filename |-> names[i],
             responses |-> <<spread(batch,
                 [response |-> extractedResponse(batch.response,
                                   charsOf(names[i]), i - 1),
                  filename |-> names[i]])>>]]

\* variant: a failed call leaves every filename without an answer of its own
parseBatchResponseUnanswered(batch, names) ==
    IF ~batch.success
    THEN [i \in 1..Len(names) |->
            [filename |-> names[i],
             responses |-> <<[success |-> FALSE, error |-> "No response",
                              model |-> batch.model,
                              filename |-> names[i]]>>]]
    ELSE [i \in 1..Len(names) |->
            [filename |-> names[i],
             responses |-> <<spread(batch,
                 [response |-> extractedResponse(batch.response,
                                   charsOf(names[i]), i - 1),
                  filename |-> names[i]])>>]]

\* the value parseBatchResponse returns when it does not raise
parseBatchResponse(batch, names) ==
    IF ~batch.success
    THEN [i \in 1..Len(names) |->
            [filename |-> names[i],
             responses |-> <<spread(batch, [filename |-> names[i]])>>]]
    ELSE [i \in 1..Len(names) |->
            [filename |-> names[i],
             responses |-> <<spread(batch,
                 [response |-> extractedResponse(batch.response,
                                   charsOf(names[i]), i - 1),
                  filename |-> names[i]])>>]]

(***************************************************************************)
(* Inputs of parseBatchResponse: the text of a batch answer gives one      *)
(* answer per image, all in the same format.                               *)
(***************************************************************************)
BatchAnswers ==
    { <<"A">>, <<"B">>, <<"c">>, <<"4", "2">>, <<"4", "2", " ">>, <<>>,
      <<"B", " ", "i", "s", " ", "c", "o", "r", "r", "e", "c", "t">> }

Formats == {"labelled", "bare", "ordinal", "plain", "single"}

\* what precedes the answer of the image of that name and rank
prefixOf(format, name, rank) ==
    IF format = "labelled" THEN ImageWord \o <<" ">> \o name \o <<":", " ">>
    ELSE IF format = "bare" THEN name \o <<":", " ">>
    ELSE IF format = "ordinal" THEN <<Digits[rank], ".", " ">>
    ELSE <<>>

RECURSIVE renderFrom(_, _, _, _)
renderFrom(format, names, answers, i) ==
    IF i > Len(names) THEN <<>>
    ELSE prefixOf(format, charsOf(names[i]), i) \o answers[i]
             \o (IF i < Len(names) THEN <<"\n">> ELSE <<>>)
             \o renderFrom(format, names, answers, i + 1)

\* the text of the batch answer; in the format "single" the model gave the
\* first answer only
rawText(format, names, answers) ==
    IF format = "single"
    THEN (IF Len(names) = 0 THEN <<>> ELSE answers[1])
    ELSE renderFrom(format, names, answers, 1)

InitParse ==
    /\ \E n \in 0..MaxBatch :
          \E names \in [1..n -> Filenames] :
             /\ filenames = names
             /\ \/ \E e \in Errors :
                      batchResponse = [success |-> FALSE, error |-> e,
                                       model |-> OpenAIModel,
                                       filenames |-> names]
                \/ \E format \in Formats :
                      \E answers \in [1..n -> BatchAnswers] :
                         batchResponse =
                             [success |-> TRUE,
                              response |-> rawText(format, names, answers),
                              model |-> OpenAIModel, filenames |-> names]
    /\ parsed = <<>>
    /\ ppc = "start"
    /\ AnalyzerIdle
    /\ ServerIdle
    /\ ClientIdle

Parse ==
    /\ ppc = "start"
    /\ parsed' = parseBatchResponse(batchResponse, filenames)
    /\ ppc' = "parsed"
    /\ UNCHANGED <<batchResponse, filenames>>
    /\ UNCHANGED avars
    /\ UNCHANGED svars
    /\ UNCHANGED cvars

NextParse == Parse

SpecParse == InitParse /\ [][NextParse]_vars

(***************************************************************************)
(* POST /api/analyze-batch (server.js 731-822): all images are sent to     *)
(* both models in one call each, each answer is split per image by         *)
(* parseBatchResponse and the two answers of every image are analysed.     *)
(***************************************************************************)
\* the answers a model gives in a batch text
HandlerAnswers ==
    { <<"A">>, <<"B">>,
      <<"B", " ", "i", "s", " ", "c", "o", "r", "r", "e", "c", "t">> }

HandlerFormats == {"labelled", "single"}

\* the texts a model answers a batch of these filenames with
BatchTexts(names) ==
    {rawText(format, names, answers) :
         format \in HandlerFormats,
         answers \in [1..Len(names) -> HandlerAnswers]}

\* what callOpenAIBatch resolves to: the content of the first choice, which
\* the API may leave null, or the message of the error caught
callOpenAIBatch(names) ==
    {[success |-> TRUE, response |-> t, model |-> OpenAIModel,
      filenames |-> names] : t \in BatchTexts(names) \cup {Null}}
    \cup {[success |-> FALSE, error |-> e, model |-> OpenAIModel,
           filenames |-> names] : e \in ServerErrors}

\* what callClaudeBatch resolves to: the text of the last text block ('' when
\* there is none) with the thinking summary, or the message of the error
callClaudeBatch(names) ==
    {[success |-> TRUE, response |-> t, thinking |-> "summary",
      model |-> ClaudeModel, filenames |-> names] :
         t \in BatchTexts(names) \cup {<<>>}}
    \cup {[success |-> FALSE, error |-> e, model |-> ClaudeModel,
           filenames |-> names] : e \in ServerErrors}

\* req.files.map(file => file.originalname)
originalnames(fs) == [i \in 1..Len(fs) |-> fs[i].originalname]

\* the unit of work of the calls of a batch request in the log
WholeRequest == 0

\* xResults[index]?.responses[0] || { success: false, error: 'No response',
\* model } (776-777), index counted from 1
responseAt(modelResults, index, model) ==
    IF index <= Len(modelResults)
    THEN modelResults[index].responses[1]
    ELSE [success |-> FALSE, error |-> "No response", model |-> model]

\* allResponses of the image at index (779)
batchResponsesAt(openaiResults, claudeResults, index) ==
    <<responseAt(openaiResults, index, OpenAIModel),
      responseAt(claudeResults, index, ClaudeModel)>>

\* the results of the request (770-786)
batchResults(openai, claude, names) ==
    LET openaiResults == parseBatchResponse(openai, names)
        claudeResults == parseBatchResponse(claude, names)
    IN  [i \in 1..Len(names) |->
            [filename |-> names[i],
             responses |-> analyzeResponses(
                 batchResponsesAt(openaiResults, claudeResults, i))]]

\* something is thrown between the await and res.json (770-786)
batchThrows(openai, claude, names) ==
    \/ parseThrows(openai, names)
    \/ parseThrows(claude, names)
    \/ LET openaiResults == parseBatchResponse(openai, names)
           claudeResults == parseBatchResponse(claude, names)
       IN  \E i \in 1..Len(names) :
              analyzeThrows(batchResponsesAt(openaiResults, claudeResults, i))

\* variant: only the calls of one model are counted as saved
originalApiCallsSavedPerModel(fs) == Len(fs) - 1

\* (req.files.length * 2) - 2 (803)
originalApiCallsSaved(fs) == (Len(fs) * 2) - 2

\* what a template prints for an element the array does not have
Undefined == "undefined"

\* ${filenames[i]}, i counted from 1
nameAt(names, i) == IF i <= Len(names) THEN names[i] ELSE Undefined

\* variant: the default prompt has one line per filename of the batch
imageLinesPerName(names) == names

\* the names in the lines "Image <name>: [answer]" of the default prompt
\* (153-157, 319-323): the first two elements always, the third to the
\* fifth when the batch has them
imageLines(names) ==
    <<nameAt(names, 1), nameAt(names, 2)>>
    \o (IF Len(names) > 2 THEN <<nameAt(names, 3)>> ELSE <<>>)
    \o (IF Len(names) > 3 THEN <<nameAt(names, 4)>> ELSE <<>>)
    \o (IF Len(names) > 4 THEN <<nameAt(names, 5)>> ELSE <<>>)

\* prompt || `I'm sending you ${imagePaths.length} images ...` (150, 316)
batchPrompt(custom, names) ==
    IF custom THEN [custom |-> TRUE]
    ELSE [custom |-> FALSE, images |-> Len(names),
          imageLines |-> imageLines(names)]

\* variant: only the file of the first image is removed
removeFirstFile(stored, fs) ==
    IF Len(fs) = 0 THEN stored ELSE stored \ {fs[1].path}

\* the uploaded files that exist are removed (789-794, 809-813; 715-717
\* and 895-897 for a single file)
removeFiles(stored, fs) == stored \ {fs[i].path : i \in 1..Len(fs)}

InitBatch ==
    /\ \E n \in 0..MaxFiles :
         \E names \in [1..n -> Filenames] :
            /\ files = [i \in 1..n |-> [originalname |-> names[i], path |-> i]]
            /\ disk = 1..n
    /\ cursor = 0
    /\ openaiResult = [state |-> "none"]
    /\ claudeResult = [state |-> "none"]
    /\ results = <<>>
    /\ reply = [sent |-> FALSE]
    /\ calls = <<>>
    /\ spc = "batch received"
    /\ AnalyzerIdle
    /\ ParserIdle
    /\ ClientIdle

\* the checks on req.files (738-746)
ValidateBatch ==
    /\ spc = "batch received"
    /\ IF Len(files) = 0
       THEN /\ reply' = [status |-> 400, error |-> "No images uploaded"]
            /\ spc' = "sent"
       ELSE IF Len(files) > MaxUpload
       THEN /\ reply' = [status |-> 400,
                         error |-> "Maximum 8 images allowed per request"]
            /\ spc' = "sent"
       ELSE /\ spc' = "batch checked"
            /\ UNCHANGED reply
    /\ UNCHANGED <<files, disk, cursor, openaiResult, claudeResult, results,
                   calls>>
    /\ UNCHANGED avars
    /\ UNCHANGED pvars
    /\ UNCHANGED cvars

\* Promise.all([callOpenAIBatch(...), callClaudeBatch(...)]) (760-763)
StartBatchCalls ==
    /\ spc = "batch checked"
    /\ openaiResult' = Pending
    /\ claudeResult' = Pending
    /\ \E custom \in BOOLEAN :
          calls' = calls \o
              <<[file |-> WholeRequest, model |-> OpenAIModel,
                 outcome |-> "pending",
                 prompt |-> batchPrompt(custom, originalnames(files))],
                [file |-> WholeRequest, model |-> ClaudeModel,
                 outcome |-> "pending",
                 prompt |-> batchPrompt(custom, originalnames(files))]>>
    /\ spc' = "batch awaiting"
    /\ UNCHANGED <<files, disk, cursor, results, reply>>
    /\ UNCHANGED avars
    /\ UNCHANGED pvars
    /\ UNCHANGED cvars

OpenAIBatchSettles ==
    /\ spc = "batch awaiting"
    /\ openaiResult = Pending
    /\ \E v \in callOpenAIBatch(originalnames(files)) :
          /\ openaiResult' = Fulfilled(v)
          /\ calls' = settle(calls, WholeRequest, OpenAIModel, v)
    /\ UNCHANGED <<files, disk, cursor, claudeResult, results, reply, spc>>
    /\ UNCHANGED avars
    /\ UNCHANGED pvars
    /\ UNCHANGED cvars

ClaudeBatchSettles ==
    /\ spc = "batch awaiting"
    /\ claudeResult = Pending
    /\ \E v \in callClaudeBatch(originalnames(files)) :
          /\ claudeResult' = Fulfilled(v)
          /\ calls' = settle(calls, WholeRequest, ClaudeModel, v)
    /\ UNCHANGED <<files, disk, cursor, openaiResult, results, reply, spc>>
    /\ UNCHANGED avars
    /\ UNCHANGED pvars
    /\ UNCHANGED cvars

\* the await resumes with both answers: they are split per image and
\* analysed, the files are removed and the results sent (770-804); whatever
\* is thrown on the way is caught, the files are removed and the request
\* is answered 500 (806-817)
ProcessBatch ==
    /\ spc = "batch awaiting"
    /\ openaiResult.state = "fulfilled"
    /\ claudeResult.state = "fulfilled"
    /\ LET names == originalnames(files)
           openai == openaiResult.value
           claude == claudeResult.value
       IN  IF batchThrows(openai, claude, names)
           THEN /\ reply' = [status |-> 500,
                             error |-> "Failed to process images in batch"]
                /\ UNCHANGED results
           ELSE /\ results' = batchResults(openai, claude, names)
                /\ reply' = [status |-> 200,
                             results |-> results',
                             batchProcessed |-> TRUE,
                             originalApiCallsSaved |->
                                 originalApiCallsSaved(files)]
    /\ disk' = removeFiles(disk, files)
    /\ spc' = "sent"
    /\ UNCHANGED <<files, cursor, openaiResult, claudeResult, calls>>
    /\ UNCHANGED avars
    /\ UNCHANGED pvars
    /\ UNCHANGED cvars

NextBatch ==
    \/ ValidateBatch
    \/ StartBatchCalls
    \/ OpenAIBatchSettles
    \/ ClaudeBatchSettles
    \/ ProcessBatch

SpecBatch == InitBatch /\ [][NextBatch]_vars

\* a request to either endpoint
InitRequests == InitServer \/ InitBatch

NextRequests == NextServer \/ NextBatch

SpecRequests == InitRequests /\ [][NextRequests]_vars

(***************************************************************************)
(* POST /api/evaluate-strongly (server.js 825-905): one image is sent to   *)
(* the two powerful models at once and the two answers are analysed.       *)
(***************************************************************************)
O3Model == "o3"
OpusModel == "claude-opus-4-20250514"

\* what callOpenAIO3 resolves to (382-436)
callOpenAIO3 ==
    {[success |-> TRUE, response |-> t, model |-> O3Model,
      tier |-> "powerful"] : t \in ServerTexts \cup {Null}}
    \cup {[success |-> FALSE, error |-> e, model |-> O3Model,
           tier |-> "powerful"] : e \in ServerErrors}

\* what callClaudeOpus resolves to: the text of the stream, trimmed
\* (438-508)
callClaudeOpus ==
    {[success |-> TRUE, response |-> trim(t), model |-> OpusModel,
      tier |-> "powerful"] : t \in ServerTexts \cup {<<>>}}
    \cup {[success |-> FALSE, error |-> e, model |-> OpusModel,
           tier |-> "powerful"] : e \in ServerErrors}

\* req.file: the image of upload.single('image'), if one was uploaded
InitStrong ==
    /\ \E n \in 0..1 :
         \E names \in [1..n -> Filenames] :
            /\ files = [i \in 1..n |-> [originalname |-> names[i], path |-> i]]
            /\ disk = 1..n
    /\ cursor = 0
    /\ openaiResult = [state |-> "none"]
    /\ claudeResult = [state |-> "none"]
    /\ results = <<>>
    /\ reply = [sent |-> FALSE]
    /\ calls = <<>>
    /\ spc = "strong received"
    /\ AnalyzerIdle
    /\ ParserIdle
    /\ ClientIdle

\* the check on req.file (851-854), then Promise.all of the two calls
\* (867-870)
StartStrongCalls ==
    /\ spc = "strong received"
    /\ IF Len(files) = 0
       THEN /\ reply' = [status |-> 400,
                         error |-> "No image uploaded for strong evaluation"]
            /\ spc' = "sent"
            /\ UNCHANGED <<openaiResult, claudeResult, calls>>
       ELSE /\ openaiResult' = Pending
            /\ claudeResult' = Pending
            /\ calls' = calls \o
                   <<[file |-> 1, model |-> O3Model, outcome |-> "pending"],
                     [file |-> 1, model |-> OpusModel, outcome |-> "pending"]>>
            /\ spc' = "strong awaiting"
            /\ UNCHANGED reply
    /\ UNCHANGED <<files, disk, cursor, results>>
    /\ UNCHANGED avars
    /\ UNCHANGED pvars
    /\ UNCHANGED cvars

O3Settles ==
    /\ spc = "strong awaiting"
    /\ openaiResult = Pending
    /\ \E v \in callOpenAIO3 :
          /\ openaiResult' = Fulfilled(v)
          /\ calls' = settle(calls, 1, O3Model, v)
    /\ UNCHANGED <<files, disk, cursor, claudeResult, results, reply, spc>>
    /\ UNCHANGED avars
    /\ UNCHANGED pvars
    /\ UNCHANGED cvars

OpusSettles ==
    /\ spc = "strong awaiting"
    /\ claudeResult = Pending
    /\ \E v \in callClaudeOpus :
          /\ claudeResult' = Fulfilled(v)
          /\ calls' = settle(calls, 1, OpusModel, v)
    /\ UNCHANGED <<files, disk, cursor, openaiResult, results, reply, spc>>
    /\ UNCHANGED avars
    /\ UNCHANGED pvars
    /\ UNCHANGED cvars

\* the await resumes: the answers are analysed, the file is removed and
\* the evaluation sent (876-889); whatever is thrown on the way is caught,
\* the file is removed and the request is answered 500 (891-900)
ProcessStrong ==
    /\ spc = "strong awaiting"
    /\ openaiResult.state = "fulfilled"
    /\ claudeResult.state = "fulfilled"
    /\ LET allResponses == <<openaiResult.value, claudeResult.value>>
       IN  IF analyzeThrows(allResponses)
           THEN reply' = [status |-> 500,
                          error |-> "Failed to perform strong evaluation"]
           ELSE reply' = [status |-> 200,
                          filename |-> files[1].originalname,
                          responses |-> analyzeResponses(allResponses),
                          strongEvaluation |-> TRUE]
    /\ disk' = removeFiles(disk, files)
    /\ spc' = "sent"
    /\ UNCHANGED <<files, cursor, openaiResult, claudeResult, results, calls>>
    /\ UNCHANGED avars
    /\ UNCHANGED pvars
    /\ UNCHANGED cvars

NextStrong ==
    \/ StartStrongCalls
    \/ O3Settles
    \/ OpusSettles
    \/ ProcessStrong

SpecStrong == InitStrong /\ [][NextStrong]_vars

\* a request to any of the three endpoints that take uploads
InitEndpoints == InitServer \/ InitBatch \/ InitStrong

NextEndpoints == NextServer \/ NextBatch \/ NextStrong

SpecEndpoints == InitEndpoints /\ [][NextEndpoints]_vars

(***************************************************************************)
(* The client (client/src/App.js): handleAnalyze posts the chosen files    *)
(* and stores the results; handleStrongEvaluation posts one of them again  *)
(* and stores the evaluation under its filename.  Every result and every   *)
(* evaluation is marked with the analysis run it was asked in.             *)
(***************************************************************************)
NoEvaluations == [f \in {} |-> 0]

\* the files chosen, in the order they are posted
chosenNames(fs) == SelectSeq(<<"cat.jpg", "dog.jpg">>, LAMBDA f : f \in fs)

\* response.data.results for the files of that run: each result may hold
\* answers tagged 'different'
resultsFor(names, r, different) ==
    [i \in 1..Len(names) |->
        [filename |-> names[i], run |-> r, disagreement |-> different[i]]]

\* hasDisagreement(result.responses) && !strongEvaluations[result.filename]
\* with a button that is not disabled (476-480)
canEvaluate(f) ==
    /\ \E i \in 1..Len(shown) :
          shown[i].filename = f /\ shown[i].disagreement
    /\ f \notin DOMAIN strongEvaluations
    /\ f \notin strongEvaluationLoading

\* {...prev, [filename]: response.data}
stored(prev, f, data) ==
    [g \in DOMAIN prev \cup {f} |-> IF g = f THEN data ELSE prev[g]]

InitClient ==
    /\ run = 0
    /\ loading = FALSE
    /\ shown = <<>>
    /\ originalFiles = {}
    /\ strongEvaluations = NoEvaluations
    /\ strongEvaluationLoading = {}
    /\ inflight = {}
    /\ AnalyzerIdle
    /\ ServerIdle
    /\ ParserIdle

\* handleAnalyze up to its await (62-106); the button is disabled while
\* loading or without files (399-400)
HandleAnalyze ==
    /\ ~loading
    /\ run < MaxRuns
    /\ \E fs \in SUBSET Filenames \ {{}} :
          /\ originalFiles' = fs
          /\ inflight' = inflight \cup
                 {[kind |-> "analyze", run |-> run + 1, files |-> fs]}
    /\ run' = run + 1
    /\ loading' = TRUE
    /\ shown' = <<>>
    /\ strongEvaluations' = NoEvaluations
    /\ strongEvaluationLoading' = {}
    /\ UNCHANGED avars
    /\ UNCHANGED svars
    /\ UNCHANGED pvars

\* the await of handleAnalyze resumes (106-145): the results are stored,
\* or the request failed and an error is shown
AnalyzeResponds ==
    /\ \E req \in inflight :
          /\ req.kind = "analyze"
          /\ inflight' = inflight \ {req}
          /\ \/ \E different \in [1..Cardinality(req.files) -> BOOLEAN] :
                   shown' = resultsFor(chosenNames(req.files), req.run,
                                       different)
             \/ UNCHANGED shown
    /\ loading' = FALSE
    /\ UNCHANGED <<run, originalFiles, strongEvaluations,
                   strongEvaluationLoading>>
    /\ UNCHANGED avars
    /\ UNCHANGED svars
    /\ UNCHANGED pvars

\* handleStrongEvaluation up to its await (148-239), from the button of a
\* result
HandleStrongEvaluation ==
    /\ \E f \in Filenames :
          /\ canEvaluate(f)
          /\ f \in originalFiles
          /\ strongEvaluationLoading' = strongEvaluationLoading \cup {f}
          /\ inflight' = inflight \cup
                 {[kind |-> "strong", run |-> run, filename |-> f]}
    /\ UNCHANGED <<run, loading, shown, originalFiles, strongEvaluations>>
    /\ UNCHANGED avars
    /\ UNCHANGED svars
    /\ UNCHANGED pvars

\* the await of handleStrongEvaluation resumes (239-268): the evaluation is
\* stored under the filename, or the request failed; the flag is cleared
StrongResponds ==
    /\ \E req \in inflight :
          /\ req.kind = "strong"
          /\ inflight' = inflight \ {req}
          /\ \/ strongEvaluations' =
                   stored(strongEvaluations, req.filename,
                          [filename |-> req.filename, run |-> req.run])
             \/ UNCHANGED strongEvaluations
          /\ strongEvaluationLoading' =
                 strongEvaluationLoading \ {req.filename}
    /\ UNCHANGED <<run, loading, shown, originalFiles>>
    /\ UNCHANGED avars
    /\ UNCHANGED svars
    /\ UNCHANGED pvars

NextClient ==
    \/ HandleAnalyze
    \/ AnalyzeResponds
    \/ HandleStrongEvaluation
    \/ StrongResponds

SpecClient == InitClient /\ [][NextClient]_vars

(***************************************************************************)
(* Properties of analyzeResponses.                                         *)
(***************************************************************************)
okCount == Len(successfulResponses(responses))

hasCount(r) == "matchCount" \in DOMAIN r

\* the entries of the returned value that are successful answers
okEntries == {i \in 1..Len(analyzed) : analyzed[i].success}

\* the answer without what analyzeResponses adds to it
untagged(r) == [k \in DOMAIN r \ {"status", "matchCount"} |-> r[k]]

\* C1: every failed answer of the input is returned with status 'error' and
\* without a matchCount, and no matchCount counts a failed answer: only
\* successful answers carry one, and it never exceeds their number.
C1_FailedAreErrors ==
    pc = "analyzed" =>
        /\ \A i \in 1..Len(responses) :
              ~responses[i].success =>
                  \E k \in 1..Len(analyzed) :
                      /\ analyzed[k] = spread(responses[i], [status |-> "error"])
                      /\ ~hasCount(analyzed[k])
        /\ \A k \in 1..Len(analyzed) :
              /\ ~analyzed[k].success => analyzed[k].status = "error"
              /\ hasCount(analyzed[k]) =>
                    analyzed[k].success /\ analyzed[k].matchCount <= okCount

C1_Witness ==
    /\ pc = "analyzed"
    /\ \E i \in 1..Len(responses) : ~responses[i].success
    /\ \E k \in okEntries : analyzed[k].matchCount = 2

allShort ==
    \A i \in 1..Len(responses) :
        responses[i].success =>
            Len(trim(toLowerCase(responses[i].response))) <= ShortAnswerLen

sameNormalized(r) ==
    {i \in 1..Len(responses) :
        /\ responses[i].success
        /\ trim(toLowerCase(responses[i].response))
               = trim(toLowerCase(r.response))}

C3_ShortAnswersExact ==
    (pc = "analyzed" /\ allShort) =>
        \A k \in okEntries :
            analyzed[k].matchCount = Cardinality(sameNormalized(analyzed[k]))

\* "A", "a " and "B": partial 2, partial 2, different 1
C3_Witness ==
    /\ pc = "analyzed"
    /\ allShort
    /\ Len(analyzed) = 3
    /\ \A k \in 1..3 : analyzed[k].success
    /\ analyzed[1].response = <<"A">> /\ analyzed[2].response = <<"a", " ">>
    /\ analyzed[3].response = <<"B">>
    /\ analyzed[1].status = "partial" /\ analyzed[1].matchCount = 2
    /\ analyzed[2].status = "partial" /\ analyzed[2].matchCount = 2
    /\ analyzed[3].status = "different" /\ analyzed[3].matchCount = 1

\* the normalized text of a successful answer
textOf(r) == trim(toLowerCase(r.response))

wordSet(text) == {splitWords(text)[i] : i \in 1..Len(splitWords(text))}

\* overlap > 0.8 with each shared distinct word counted once, over the
\* longer word sequence
distinctOverlap(a, b) ==
    10 * Cardinality(wordSet(a) \cap wordSet(b))
        > 8 * Max(Len(splitWords(a)), Len(splitWords(b)))

\* the same, over the larger set of distinct words
distinctOverlapOfSets(a, b) ==
    10 * Cardinality(wordSet(a) \cap wordSet(b))
        > 8 * Max(Cardinality(wordSet(a)), Cardinality(wordSet(b)))

bothShort(a, b) == Len(a) <= ShortAnswerLen /\ Len(b) <= ShortAnswerLen

\* the successful answers of the input that r matches under equivalence eq
matchesUnder(eq(_, _), r) ==
    {i \in 1..Len(responses) :
        /\ responses[i].success
        /\ IF bothShort(textOf(r), textOf(responses[i]))
           THEN textOf(r) = textOf(responses[i])
           ELSE eq(textOf(r), textOf(responses[i]))}

\* C4: two texts of which one is longer than 5 characters are equivalent
\* iff the number of distinct shared words over the larger word count is
\* strictly above 0.8, so repeating a word does not raise the overlap
\* (the larger word count read either as sequence length or as number of
\* distinct words).
C4_DistinctWordOverlap ==
    pc = "analyzed" =>
        \A k \in okEntries :
            \/ analyzed[k].matchCount
                   = Cardinality(matchesUnder(distinctOverlap, analyzed[k]))
            \/ analyzed[k].matchCount
                   = Cardinality(matchesUnder(distinctOverlapOfSets, analyzed[k]))

\* C5: if any successful answer is tagged consensus, every successful
\* answer of the call is tagged consensus with matchCount = |ok|.
C5_ConsensusIsMutual ==
    pc = "analyzed" =>
        ((\E k \in okEntries : analyzed[k].status = "consensus") =>
             \A k \in okEntries :
                 /\ analyzed[k].status = "consensus"
                 /\ analyzed[k].matchCount = okCount)

\* C6: every successful answer has 1 <= matchCount <= |ok|: each text, the
\* empty one and those with repeated words included, matches itself.
C6_MatchCountRange ==
    pc = "analyzed" =>
        \A k \in okEntries :
            /\ hasCount(analyzed[k])
            /\ 1 <= analyzed[k].matchCount
            /\ analyzed[k].matchCount <= okCount

\* an empty text and a text of one repeated word, each matching itself
C6_Witness ==
    /\ pc = "analyzed"
    /\ \E k \in okEntries : textOf(analyzed[k]) = <<>>
    /\ \E k \in okEntries :
          /\ Len(splitWords(textOf(analyzed[k]))) = 5
          /\ Cardinality(wordSet(textOf(analyzed[k]))) = 1
          /\ analyzed[k].matchCount = 1

\* C7: the returned sequence has the length of the input and holds every
\* input answer once, unchanged but for the status and matchCount added:
\* the successful answers in input order, then the failed ones in input
\* order.
C7_OutputOrder ==
    pc = "analyzed" =>
        /\ Len(analyzed) = Len(responses)
        /\ [i \in 1..Len(analyzed) |-> untagged(analyzed[i])]
               = SelectSeq(responses, LAMBDA r : r.success)
                     \o SelectSeq(responses, LAMBDA r : ~r.success)

\* a failed answer ahead of two successful ones
C7_Witness ==
    /\ pc = "analyzed"
    /\ Len(responses) = 3
    /\ ~responses[1].success /\ responses[2].success /\ responses[3].success
    /\ analyzed[1].model = 2 /\ analyzed[2].model = 3 /\ analyzed[3].model = 1

\* C8: analyzeResponses applied to its own output returns that output.
C8_Idempotent ==
    pc = "reanalyzed" => analyzed = responses

C8_Witness ==
    /\ pc = "reanalyzed"
    /\ Len(responses) = 3
    /\ \E i \in 1..Len(responses) : responses[i].status = "error"
    /\ \E i \in 1..Len(responses) :
          responses[i].status = "consensus" /\ responses[i].matchCount = 2

\* C9: each successful answer gets the status and matchCount it gets when
\* the failed answers are removed from the input.
C9_FailedDoNotInfluence ==
    pc = "compared" =>
        /\ Len(control) = okCount
        /\ \A k \in 1..okCount :
              /\ analyzed[k].success
              /\ untagged(analyzed[k]) = untagged(control[k])
              /\ analyzed[k].status = control[k].status
              /\ analyzed[k].matchCount = control[k].matchCount

C9_Witness ==
    /\ pc = "compared"
    /\ okCount = 2
    /\ Len(responses) = 3
    /\ analyzed[1].status = "consensus"

(***************************************************************************)
(* Properties of POST /api/analyze.                                        *)
(***************************************************************************)
callsOf(c) == {i \in 1..Len(calls) : calls[i].file = c}

allCallsFailed(c) ==
    /\ callsOf(c) # {}
    /\ \A i \in callsOf(c) : calls[i].outcome = "failed"

\* C10: an image all of whose model calls failed is in the response with a
\* responses list and no image-level error, the list holding one entry per
\* model, each tagged 'error' and none with a matchCount.
C10_AllFailedImage ==
    "results" \in DOMAIN reply =>
        \A c \in 1..Len(files) :
            allCallsFailed(c) =>
                /\ c <= Len(reply.results)
                /\ LET entry == reply.results[c] IN
                   /\ entry.filename = files[c].originalname
                   /\ "responses" \in DOMAIN entry
                   /\ "error" \notin DOMAIN entry
                   /\ Len(entry.responses) = 2
                   /\ {entry.responses[i].model : i \in 1..2}
                          = {OpenAIModel, ClaudeModel}
                   /\ \A i \in 1..2 :
                         /\ entry.responses[i].status = "error"
                         /\ ~entry.responses[i].success
                         /\ ~hasCount(entry.responses[i])

\* a response in which the second of two images had both calls fail
C10_Witness ==
    /\ "results" \in DOMAIN reply
    /\ Len(files) = 2
    /\ allCallsFailed(2)
    /\ ~allCallsFailed(1)

(***************************************************************************)
(* Properties of parseBatchResponse.                                       *)
(***************************************************************************)
\* C11: parseBatchResponse returns one entry per filename, the entry at
\* position i carrying filenames[i], whether the batch answer succeeded or
\* failed and whether or not filenames repeat.
C11_OneEntryPerFilename ==
    ppc = "parsed" =>
        /\ Len(parsed) = Len(filenames)
        /\ \A i \in 1..Len(filenames) :
              /\ parsed[i].filename = filenames[i]
              /\ Len(parsed[i].responses) = 1
              /\ parsed[i].responses[1].filename = filenames[i]

\* a failed batch answer for the same filename twice
C11_Witness ==
    /\ ppc = "parsed"
    /\ ~batchResponse.success
    /\ Len(filenames) = 2
    /\ filenames[1] = filenames[2]
    /\ Len(parsed) = 2

(***************************************************************************)
(* Properties of POST /api/analyze-batch.                                  *)
(***************************************************************************)
\* the two batch calls of the request, once both have settled
batchSettled ==
    /\ openaiResult.state = "fulfilled"
    /\ claudeResult.state = "fulfilled"
    /\ spc \in {"batch awaiting", "sent"}

\* the entries of that model among the analysed answers of an image
entriesOf(entry, model) ==
    SelectSeq(entry.responses, LAMBDA r : r.model = model)

\* every filename gets the failed batch answer itself
failsIdentically(batch, names) ==
    /\ Len(parseBatchResponse(batch, names)) = Len(names)
    /\ \A i \in 1..Len(names) :
          LET r == parseBatchResponse(batch, names)[i].responses IN
          /\ Len(r) = 1
          /\ ~r[1].success
          /\ r[1].error = batch.error

\* in the results sent, the failed model's entry of every image is tagged
\* 'error' with the message of the batch, and a successful entry of the
\* other model is analysed
failureReported(failed, other) ==
    "results" \in DOMAIN reply =>
        /\ Len(reply.results) = Len(files)
        /\ \A i \in 1..Len(files) :
              LET mine == entriesOf(reply.results[i], failed.model)
                  theirs == entriesOf(reply.results[i], other.model)
              IN  /\ Len(mine) = 1
                  /\ ~mine[1].success
                  /\ mine[1].status = "error"
                  /\ mine[1].error = failed.error
                  /\ ~hasCount(mine[1])
                  /\ Len(theirs) = 1
                  /\ other.success =>
                        /\ theirs[1].success
                        /\ hasCount(theirs[1])
                        /\ theirs[1].status = "consensus"

distinctNames(names) ==
    \A i, j \in 1..Len(names) : names[i] = names[j] => i = j

\* the text extracted for the filename at rank i
extractedAt(i) == parsed[i].responses[1].response

\* C13: for distinct filenames and a text made of one labelled segment
\* "Image <filename>: <answer>" per filename, in order, every filename gets
\* exactly its own answer, trimmed, whatever the answer's length.
C13_LabelledSegments ==
    (ppc = "parsed" /\ batchResponse.success /\ distinctNames(filenames)) =>
        \A answers \in [1..Len(filenames) -> BatchAnswers \ {<<>>}] :
            batchResponse.response = rawText("labelled", filenames, answers)
                => \A i \in 1..Len(filenames) :
                      extractedAt(i) = trim(answers[i])

\* C14: the strategies are tried in order and the first that yields a
\* non-empty text decides: once the labelled-segment or the ordinal-line
\* pattern has produced a non-empty text for a filename, that text is the
\* answer and no later strategy replaces it.
C14_FirstStrategyWins ==
    (ppc = "parsed" /\ batchResponse.success) =>
        \A i \in 1..Len(filenames) :
            LET byPattern == patternExtraction(batchResponse.response,
                                 charsOf(filenames[i]), i - 1)
            IN  byPattern # <<>> => extractedAt(i) = byPattern

\* C15: for a successful batch answer, whatever its text (empty text
\* included) and whatever the filenames, every filename receives an answer
\* with success = true and a non-empty text.
C15_NeverAbsent ==
    (ppc = "parsed" /\ batchResponse.success) =>
        /\ Len(parsed) = Len(filenames)
        /\ \A i \in 1..Len(filenames) :
              /\ parsed[i].responses[1].success
              /\ extractedAt(i) # <<>>

(***************************************************************************)
(* Properties of the requests: failures, fan-in and the results list.      *)
(***************************************************************************)
\* both calls of the image at the cursor have settled
imageSettled ==
    /\ spc = "awaiting"
    /\ openaiResult.state = "fulfilled"
    /\ claudeResult.state = "fulfilled"

\* processing the image at the cursor fails
imageFails ==
    /\ imageSettled
    /\ analyzeThrows(<<openaiResult.value, claudeResult.value>>)

\* the entry of an image is an image-level error
isErrorEntry(entry) == "error" \in DOMAIN entry

\* C16: in individual mode a failure while processing an image pushes the
\* error entry of that image and the loop goes on with the next image
\* without answering; the request is answered with the results, which hold
\* an entry for every image, those after a failed image included.
C16_FailureIsLocal ==
    /\ [][imageFails =>
             /\ results' = Append(results, imageError(files[cursor]))
             /\ cursor' = cursor + 1
             /\ spc' = "loop"
             /\ reply' = reply]_vars
    /\ []((spc = "sent" /\ Len(files) >= 1 /\ Len(files) <= MaxUpload) =>
             /\ "results" \in DOMAIN reply
             /\ Len(reply.results) = Len(files)
             /\ \A i \in 1..Len(files) :
                   reply.results[i].filename = files[i].originalname)

C16_Witness ==
    /\ "results" \in DOMAIN reply
    /\ Len(reply.results) = 2
    /\ reply.results[1] = imageError(files[1])
    /\ "responses" \in DOMAIN reply.results[2]

\* C17: a fault raised while the answers are split or analysed does not
\* fail the request: in batch mode as in individual mode the request is
\* answered with a results list that holds an entry for every uploaded
\* image.
C17_FaultsArePerImage ==
    (spc = "sent" /\ Len(files) >= 1 /\ Len(files) <= MaxUpload) =>
        /\ reply.status = 200
        /\ "results" \in DOMAIN reply
        /\ Len(reply.results) = Len(files)
        /\ \A i \in 1..Len(files) :
              reply.results[i].filename = files[i].originalname

\* C18: a request to either endpoint that is answered with a results list
\* gets one entry per uploaded image, in upload order, and every entry
\* carries either an image-level error or a responses list, never both and
\* never neither.
C18_OneEntryPerImage ==
    "results" \in DOMAIN reply =>
        /\ Len(files) >= 1
        /\ Len(files) <= MaxUpload
        /\ Len(reply.results) = Len(files)
        /\ \A i \in 1..Len(files) :
              /\ reply.results[i].filename = files[i].originalname
              /\ isErrorEntry(reply.results[i])
                     # ("responses" \in DOMAIN reply.results[i])

C18_Witness ==
    /\ "results" \in DOMAIN reply
    /\ Len(reply.results) = 2
    /\ files[1].originalname # files[2].originalname
    /\ "responses" \in DOMAIN reply.results[1]
    /\ isErrorEntry(reply.results[2])

\* the calls of the log that have not settled
pendingCalls == {i \in 1..Len(calls) : calls[i].outcome = "pending"}

\* the step splits or analyses answers: it adds to the results or answers
\* a request whose calls were started
analysisStep ==
    \/ results' # results
    \/ (spc \in {"awaiting", "batch awaiting"} /\ reply' # reply)

\* C19: a step that splits or analyses the answers of a unit of work (one
\* image in individual mode, the request in batch mode) is taken only when
\* both model calls of the unit have settled, each as a success or as a
\* failure of its own.
C19_FanIn ==
    [][analysisStep =>
          /\ openaiResult.state = "fulfilled"
          /\ claudeResult.state = "fulfilled"
          /\ pendingCalls = {}
          /\ \A i \in 1..Len(calls) :
                calls[i].outcome \in {"ok", "failed"}]_vars

C19_Witness ==
    /\ Len(results) = 1
    /\ Len(calls) = 2
    /\ calls[1].outcome = "failed"
    /\ calls[2].outcome = "ok"
    /\ "responses" \in DOMAIN results[1]

\* the answer is in the entry pushed for the image, analysed and unchanged
includedIn(answer, entry) ==
    /\ "responses" \in DOMAIN entry
    /\ \E k \in 1..Len(entry.responses) :
          /\ untagged(entry.responses[k]) = answer
          /\ entry.responses[k].status # "error"
          /\ hasCount(entry.responses[k])

\* one call failed and the other answered with a text
survives(failed, other) ==
    (~failed.success /\ other.success /\ other.response # Null) =>
        /\ Len(results') = Len(results) + 1
        /\ includedIn(other, results'[Len(results')])

inBatch ==
    \/ spc \in {"batch received", "batch checked", "batch awaiting"}
    \/ (spc = "sent" /\ cursor = 0)

Models == {OpenAIModel, ClaudeModel}

\* the invocations of that model for that unit of work
invocations(unit, model) ==
    {i \in 1..Len(calls) : calls[i].file = unit /\ calls[i].model = model}

\* the units of work of the request that have been gone through
unitsDone ==
    IF inBatch THEN {WholeRequest} ELSE 1..Len(files)

\* C21: no model is invoked twice for the same unit of work (an image in
\* individual mode, the request in batch mode), whether the invocation
\* failed or not; once a request that went past validation is answered,
\* every model was invoked exactly once per unit and no more; a failed
\* invocation is the failed answer of that model in the entry of its image.
C21_NoRetries ==
    /\ \A unit \in 0..Len(files) : \A m \in Models :
          Cardinality(invocations(unit, m)) <= 1
    /\ (spc = "sent" /\ Len(calls) > 0) =>
          /\ \A unit \in unitsDone : \A m \in Models :
                Cardinality(invocations(unit, m)) = 1
          /\ Len(calls) = Cardinality(unitsDone) * Cardinality(Models)
    /\ ("results" \in DOMAIN reply) =>
          \A c \in 1..Len(files) : \A m \in Models :
              LET unit == IF inBatch THEN WholeRequest ELSE c IN
              (/\ \E i \in invocations(unit, m) : calls[i].outcome = "failed"
               /\ "responses" \in DOMAIN reply.results[c])
                  => /\ Len(entriesOf(reply.results[c], m)) = 1
                     /\ ~entriesOf(reply.results[c], m)[1].success
                     /\ entriesOf(reply.results[c], m)[1].status = "error"

C21_Witness ==
    /\ "results" \in DOMAIN reply
    /\ ~inBatch
    /\ Len(files) = 2
    /\ calls[1].outcome = "failed"
    /\ calls[3].outcome = "failed"
    /\ calls[4].outcome = "ok"

\* the model calls POST /api/analyze makes for that many images: one per
\* model and image
individualCalls(n) == n * Cardinality(Models)

\* C22: a batch request answered with results reports as
\* originalApiCallsSaved n * 2 - 2 for its n images, which is the number of
\* calls individual mode makes for n images less the calls the request
\* made.
C22_CallsSaved ==
    "batchProcessed" \in DOMAIN reply =>
        /\ Len(files) >= 1
        /\ Len(files) <= MaxUpload
        /\ reply.originalApiCallsSaved = (Len(files) * 2) - 2
        /\ reply.originalApiCallsSaved
               = individualCalls(Len(files)) - Len(calls)

C22_Witness ==
    /\ "batchProcessed" \in DOMAIN reply
    /\ Len(files) = 2
    /\ reply.originalApiCallsSaved = 2

\* C23: the default prompt of a batch call has a line
\* "Image <filename>: [answer]" for every filename of the batch, in upload
\* order, and none for a name that is not in the batch.
C23_PromptListsBatch ==
    \A i \in 1..Len(calls) :
        (calls[i].file = WholeRequest /\ ~calls[i].prompt.custom) =>
            calls[i].prompt.imageLines = originalnames(files)

(***************************************************************************)
(* Further properties of analyzeResponses.                                 *)
(***************************************************************************)
\* C24: no answer is tagged 'consensus' unless at least two successful
\* answers of the call are judged equivalent.
C24_ConsensusNeedsTwo ==
    pc = "analyzed" =>
        \A k \in okEntries :
            analyzed[k].status = "consensus" =>
                /\ okCount >= 2
                /\ analyzed[k].matchCount >= 2

\* C29: the equivalence is symmetric: of two successful answers of a call,
\* each is counted among the matches of the other or neither is; so when
\* exactly two answers are successful they get the same status and the
\* same matchCount.
C29_EquivalenceIsSymmetric ==
    pc = "analyzed" =>
        LET texts == responseTexts(responses) IN
        /\ \A i, j \in 1..Len(texts) :
              isMatch(texts[i], texts[j]) <=> isMatch(texts[j], texts[i])
        /\ okCount = 2 =>
              \A k, l \in okEntries :
                  /\ analyzed[k].status = analyzed[l].status
                  /\ analyzed[k].matchCount = analyzed[l].matchCount

(***************************************************************************)
(* Further properties of parseBatchResponse.                               *)
(***************************************************************************)
\* the short answer tokens: a letter or a number
ShortTokens == {<<"A">>, <<"B">>, <<"c">>, <<"4", "2">>}

\* C26: for a text without labels made of one line per image, the line
\* of the image at position i beginning with i and a delimiter followed by
\* a short token, every filename gets its token as the answer, whether the
\* token is a letter or a number.
C26_OrdinalLines ==
    (ppc = "parsed" /\ batchResponse.success) =>
        \A answers \in [1..Len(filenames) -> ShortTokens] :
            batchResponse.response = rawText("ordinal", filenames, answers)
                => \A i \in 1..Len(filenames) : extractedAt(i) = answers[i]

\* what the strategies before the final fallback give for the filename at
\* rank i
beforeFallback(i) ==
    lineExtraction(batchResponse.response, i - 1,
        positionExtraction(batchResponse.response, i - 1,
            patternExtraction(batchResponse.response,
                charsOf(filenames[i]), i - 1)))

\* C27: a filename for which the labelled-segment, ordinal-line,
\* positional-letter and line-by-line strategies all give nothing gets the
\* entire text of the batch answer, unchanged; so all such filenames of a
\* batch get the same text.
C27_TerminalFallback ==
    (ppc = "parsed" /\ batchResponse.success) =>
        /\ \A i \in 1..Len(filenames) :
              beforeFallback(i) = <<>> =>
                  extractedAt(i) = batchResponse.response
        /\ \A i, j \in 1..Len(filenames) :
              (beforeFallback(i) = <<>> /\ beforeFallback(j) = <<>>) =>
                  extractedAt(i) = extractedAt(j)

C27_Witness ==
    /\ ppc = "parsed"
    /\ batchResponse.success
    /\ Len(filenames) = 2
    /\ batchResponse.response = <<"4", "2", " ">>
    /\ beforeFallback(2) = <<>>
    /\ extractedAt(1) = <<"4", "2">>
    /\ extractedAt(2) = <<"4", "2", " ">>

\* the step starts model calls
callsStarted == Len(calls') > Len(calls)

\* C28: in individual mode the images are processed one after another in
\* upload order: the calls started in a step are those of one image, the
\* next in upload order, and they are started only when both calls of
\* every earlier image have settled and the results of all earlier images
\* are recorded.
C28_OneImageAtATime ==
    [][callsStarted =>
          /\ pendingCalls = {}
          /\ Len(results) = cursor - 1
          /\ \A i \in 1..Len(calls) : calls[i].file < cursor
          /\ \A k \in 1..(cursor - 1) :
                /\ results[k].filename = files[k].originalname
                /\ \A m \in Models : Cardinality(invocations(k, m)) = 1
          /\ \A i \in (Len(calls) + 1)..Len(calls') :
                calls'[i].file = cursor]_vars

C28_Witness ==
    /\ Len(files) = 2
    /\ Len(calls) = 4
    /\ Len(results) = 1
    /\ calls[3].file = 2
    /\ calls[3].outcome = "pending"
    /\ calls[1].outcome = "ok"
    /\ calls[2].outcome = "ok"

(***************************************************************************)
(* Properties of the three upload endpoints.                               *)
(***************************************************************************)
\* the temporary files of the request that are still stored
leftOnDisk == {i \in 1..Len(files) : files[i].path \in disk}

\* C25: once /api/analyze, /api/analyze-batch or /api/evaluate-strongly
\* has sent its response, success or error, no temporary file uploaded for
\* the request is left, whichever model calls failed.
C25_FilesRemoved ==
    spc = "sent" => (leftOnDisk = {} /\ disk = {})

C25_Witness ==
    /\ spc = "sent"
    /\ Len(files) = 2
    /\ reply.status = 500
    /\ \E i \in 1..Len(calls) : calls[i].outcome = "failed"
    /\ disk = {}

(***************************************************************************)
(* Properties of the client.                                               *)
(***************************************************************************)
\* C30: a strong evaluation stored under the filename of a result shown
\* was asked in the analysis run that result belongs to: the evaluation of
\* an earlier run never appears, and never hides the button, for the
\* results of a new run.
C30_EvaluationOfCurrentRun ==
    \A i \in 1..Len(shown) :
        shown[i].filename \in DOMAIN strongEvaluations =>
            strongEvaluations[shown[i].filename].run = shown[i].run

====
